---- MODULE Spec2Model ----
(***************************************************************************)
(* A model of sqlite_logger.sqlite_handler.SqliteHandler: the handler's    *)
(* three fields (database_file, connection, cursor), the SQLite database   *)
(* it talks to (one persistent database for a file target, one database    *)
(* per connection for the ":memory:" target), and one action per public    *)
(* method.  Python values are tagged records, [t |-> type, ...]; every     *)
(* method is an operator from a call state to a call state which carries   *)
(* the raised exception, the returned value and the trace of connection    *)
(* events of the call.                                                     *)
(***************************************************************************)
EXTENDS Integers, Sequences, FiniteSets, TLC

VARIABLES
    alive,          \* TRUE once SqliteHandler(...) has returned a handler
    database_file,  \* self.database_file
    connection,     \* self.connection
    cursor,         \* self.cursor
    fileDb,         \* the database stored in the target file
    memDb,          \* the database of the current ":memory:" connection
    nextConn,       \* how many times sqlite3.connect has been called
    openConns,      \* the connections opened and not closed
    utcoffset,      \* the local time zone's offset from UTC, in minutes
    last            \* the last call: its name, inputs, outcome and trace

vars == <<alive, database_file, connection, cursor, fileDb, memDb,
          nextConn, openConns, utcoffset, last>>

-----------------------------------------------------------------------------
(* Bounds of the model. *)

\* sqlite3.connect is called at most this many times in a behaviour
MaxConnections == 4

\* log_record holds at most this many rows
MaxRows == 2

-----------------------------------------------------------------------------
(* Python values. *)

None == [t |-> "NoneType"]
PyInt(i) == [t |-> "int", v |-> i]
PyBool(b) == [t |-> "bool", v |-> b]
PyStrV(s) == [t |-> "str", v |-> s]
PyBytes(s) == [t |-> "bytes", v |-> s]
PyPath(s) == [t |-> "Path", v |-> s]
\* a float sec + frac / 10^7, 0 <= frac < 10^7
PyFloat(sec, frac) == [t |-> "float", sec |-> sec, frac |-> frac]
\* a tuple, known by its items and its text representation
PyTuple(items, repr) == [t |-> "tuple", items |-> items, repr |-> repr]

NoExc == "none"

\* n in decimal, left-padded with zeros to width w (the %02d, %04d, %06d of
\* strftime)
RECURSIVE ZeroPad(_, _)
ZeroPad(str, w) == IF Len(str) >= w THEN str ELSE ZeroPad("0" \o str, w)

Pad(n, w) == ZeroPad(ToString(n), w)

\* str without its trailing "0" characters, keeping at least one character
RECURSIVE StripZeros(_)
StripZeros(str) ==
    IF Len(str) > 1 /\ SubSeq(str, Len(str), Len(str)) = "0"
    THEN StripZeros(SubSeq(str, 1, Len(str) - 1))
    ELSE str

\* str(value)
str(value) ==
    CASE value.t = "NoneType" -> "None"
      [] value.t = "bool" -> (IF value.v THEN "True" ELSE "False")
      [] value.t = "int" -> ToString(value.v)
      [] value.t = "float" ->
            ToString(value.sec) \o "." \o StripZeros(Pad(value.frac, 7))
      [] value.t = "str" -> value.v
      [] value.t = "bytes" -> "b'" \o value.v \o "'"
      [] value.t = "Path" -> value.v
      [] value.t = "tuple" -> value.repr

\* isinstance(value, (int, float, bytes, str)); bool is a subclass of int
IsSqlScalar(value) == value.t \in {"int", "bool", "float", "bytes", "str"}

\* What sqlite3 stores for a bound parameter and hands back on a select:
\* None is NULL, an int (a bool too) an INTEGER, a float a REAL, a str a
\* TEXT, bytes a BLOB.
Stored(value) ==
    CASE value.t = "bool" -> PyInt(IF value.v THEN 1 ELSE 0)
      [] OTHER -> value

-----------------------------------------------------------------------------
(* datetime: fromtimestamp, astimezone, strftime. *)

\* The proleptic Gregorian date of the day `days` days after 1970-01-01
CivilFromDays(days) ==
    LET z == days + 719468
        era == z \div 146097
        doe == z - era * 146097
        yoe == (doe - doe \div 1460 + doe \div 36524 - doe \div 146096) \div 365
        doy == doe - (365 * yoe + yoe \div 4 - yoe \div 100)
        mp == (5 * doy + 2) \div 153
        d == doy - (153 * mp + 2) \div 5 + 1
        m == IF mp < 10 THEN mp + 3 ELSE mp - 9
        y == yoe + era * 400 + (IF m <= 2 THEN 1 ELSE 0)
    IN  [year |-> y, month |-> m, day |-> d]

\* round(frac * 1e6) for frac given in units of 10^-7 s: to the nearest
\* microsecond, a half to the even one
RoundMicroseconds(frac) ==
    LET q == frac \div 10
        r == frac % 10
    IN  IF r > 5 \/ (r = 5 /\ q % 2 = 1) THEN q + 1 ELSE q

\* datetime.fromtimestamp(timestamp, UTC): an aware datetime, kept as the
\* UTC second, the microsecond and the zone's offset in minutes
FromTimestamp(timestamp) ==
    LET us == RoundMicroseconds(timestamp.frac)
    IN  IF us >= 1000000
        THEN [sec |-> timestamp.sec + 1, us |-> us - 1000000, off |-> 0]
        ELSE [sec |-> timestamp.sec, us |-> us, off |-> 0]

\* dt.astimezone(): the same instant in the local zone
AsTimezone(dt, offset) == [dt EXCEPT !.off = offset]

\* dt.strftime("%Y-%m-%d %H:%M:%S,%f")
Strftime(dt) ==
    LET wall == dt.sec + dt.off * 60
        date == CivilFromDays(wall \div 86400)
        tod == wall % 86400
    IN  Pad(date.year, 4) \o "-" \o Pad(date.month, 2) \o "-"
        \o Pad(date.day, 2) \o " " \o Pad(tod \div 3600, 2) \o ":"
        \o Pad((tod % 3600) \div 60, 2) \o ":" \o Pad(tod % 60, 2) \o ","
        \o Pad(dt.us, 6)

\* text[:-3]
DropLast3(text) == SubSeq(text, 1, Len(text) - 3)

\* formatted_time_utc without the [:-3]
FormattedTimeUtcNotCut(timestamp) == Strftime(FromTimestamp(timestamp))

\* formatted_time_utc of emit
FormattedTimeUtc(timestamp) == DropLast3(Strftime(FromTimestamp(timestamp)))

\* formatted_time_local of emit
FormattedTimeLocal(timestamp, offset) ==
    DropLast3(Strftime(AsTimezone(FromTimestamp(timestamp), offset)))

-----------------------------------------------------------------------------
(* The SQLite database: sqlite_master's table names in creation order, and *)
(* the log_record table (its columns in definition order, its rows, and    *)
(* the last AUTOINCREMENT id sqlite_sequence remembers for it).            *)

Range(seq) == {seq[i] : i \in 1..Len(seq)}

\* source is the path of the script that created log_record
EmptyDb ==
    [tables |-> <<>>, cols |-> <<>>, rows |-> <<>>, seq |-> 0, source |-> ""]

\* The columns the default bootstrap script sqlite_logger/logging.sql gives
\* log_record
DefaultColumns ==
    <<"id", "args", "asctime", "asctime_utc", "created", "exc_info",
      "filename", "funcName", "levelname", "lineno", "message", "module",
      "msecs", "msg", "name", "pathname", "process", "processName",
      "relativeCreated", "stack_info", "thread", "threadName", "taskName">>

\* A bootstrap script file as create_logging_table meets it: its path,
\* whether the path names a file, the columns it gives log_record, and what
\* it does when log_record exists ("keep": CREATE TABLE IF NOT EXISTS;
\* "replace": DROP TABLE IF EXISTS, then CREATE TABLE).
Script(path, found, cols, rerun) ==
    [path |-> path, found |-> found, cols |-> cols, rerun |-> rerun]

DefaultPath == "sqlite_logger/logging.sql"

\* sqlite_logger/logging.sql, resolved against the working directory: a
\* file there or none.  open() runs it only when log_record is absent.
DefaultScripts ==
    {Script(DefaultPath, f, DefaultColumns, "keep") : f \in BOOLEAN}

\* The scripts create_logging_table may be given: the default one, which
\* either keeps or replaces a log_record that exists, and a caller's
DefaultScriptReruns ==
    {Script(DefaultPath, f, DefaultColumns, r) :
        f \in BOOLEAN, r \in {"keep", "replace"}}

\* Scripts a caller passes as sql_initial_script
CustomScripts ==
    {Script("custom.sql", TRUE, c, "replace") :
        c \in {<<"id", "message", "levelname">>,
               <<"id", "message", "created">>,
               <<"id", "levelname">>}}

\* cursor.executescript(sql) for the sql of a bootstrap script
ExecuteScript(db, script) ==
    LET present == "log_record" \in Range(db.tables)
        dropped == SelectSeq(db.tables, LAMBDA n : n # "log_record")
        withSeq(tables) ==
            IF "sqlite_sequence" \in Range(tables) THEN tables
            ELSE Append(tables, "sqlite_sequence")
    IN  IF present /\ script.rerun = "keep" THEN db
        ELSE [tables |-> withSeq(Append(dropped, "log_record")),
              cols |-> script.cols, rows |-> <<>>, seq |-> 0,
              source |-> script.path]

\* The rows of PRAGMA table_info(table_name): one per column, none for a
\* table that does not exist
TableInfo(db, table_name) ==
    IF table_name = "log_record" /\ "log_record" \in Range(db.tables)
    THEN [i \in 1..Len(db.cols) |-> [cid |-> i - 1, name |-> db.cols[i]]]
    ELSE <<>>

\* Table names that are not one SQL identifier: interpolated into the PRAGMA
\* text they make it a syntax error
NotIdentifiers == {"no-such"}

-----------------------------------------------------------------------------
(* logging.LogRecord: a record is a function from its attribute names to   *)
(* their values.                                                           *)

\* The names dir(record) may list, in the order dir sorts them.  The names
\* with a leading underscore sort first and are no column of any table here.
DirOrder ==
    <<"args", "asctime", "created", "exc_info", "exc_text", "filename",
      "funcName", "getMessage", "levelname", "levelno", "lineno", "message",
      "module", "msecs", "msg", "name", "pathname", "process", "processName",
      "relativeCreated", "stack_info", "taskName", "thread", "threadName">>

\* dir(record)
Dir(record) ==
    SelectSeq(DirOrder, LAMBDA a : a \in DOMAIN record \cup {"getMessage"})

\* bool(args)
Truthy(value) ==
    CASE value.t = "NoneType" -> FALSE
      [] value.t = "tuple" -> value.items # <<>>
      [] OTHER -> TRUE

\* fmt % items, for formats whose only conversions are %s
RECURSIVE PercentFormat(_, _)
PercentFormat(fmt, items) ==
    IF Len(fmt) = 0 THEN ""
    ELSE IF Len(fmt) >= 2 /\ SubSeq(fmt, 1, 2) = "%s" /\ items # <<>>
    THEN str(Head(items)) \o PercentFormat(SubSeq(fmt, 3, Len(fmt)), Tail(items))
    ELSE SubSeq(fmt, 1, 1) \o PercentFormat(SubSeq(fmt, 2, Len(fmt)), items)

\* record.getMessage()
getMessage(record) ==
    IF Truthy(record["args"])
    THEN PercentFormat(str(record["msg"]), record["args"].items)
    ELSE str(record["msg"])

\* logging.LogRecord("test_logger", logging.INFO, "test_sqlite_handler.py",
\*                   100, "test message", None, None, "test_emit")
TestRecord ==
    [a \in (Range(DirOrder) \ {"getMessage", "asctime", "message"}) |->
        CASE a = "args" -> None
          [] a = "created" -> PyFloat(1633852210, 0)
          [] a = "exc_info" -> None
          [] a = "exc_text" -> None
          [] a = "filename" -> PyStrV("test_sqlite_handler.py")
          [] a = "funcName" -> PyStrV("test_emit")
          [] a = "levelname" -> PyStrV("INFO")
          [] a = "levelno" -> PyInt(20)
          [] a = "lineno" -> PyInt(100)
          [] a = "module" -> PyStrV("test_sqlite_handler")
          [] a = "msecs" -> PyFloat(0, 0)
          [] a = "msg" -> PyStrV("test message")
          [] a = "name" -> PyStrV("test_logger")
          [] a = "pathname" -> PyStrV("test_sqlite_handler.py")
          [] a = "process" -> PyInt(1000)
          [] a = "processName" -> PyStrV("MainProcess")
          [] a = "relativeCreated" -> PyFloat(12, 5000000)
          [] a = "stack_info" -> None
          [] a = "taskName" -> None
          [] a = "thread" -> PyInt(1)
          [] a = "threadName" -> PyStrV("MainThread")]

\* logger.info(True, exc_info=False), created just below a full second
BoolRecord ==
    [TestRecord EXCEPT !["msg"] = PyBool(TRUE),
                       !["exc_info"] = PyBool(FALSE),
                       !["created"] = PyFloat(1633852210, 9999998),
                       !["msecs"] = PyFloat(999, 0)]

\* logger.error("%s logged in", "bob", exc_info=True, stack_info=True) after
\* a Formatter("%(asctime)s %(message)s") of an earlier handler has formatted
\* the record: it then has the attributes asctime and message as well
FormattedRecord ==
    [a \in (Range(DirOrder) \ {"getMessage"}) |->
        CASE a = "asctime" -> PyStrV("2021-10-10 01:50:10,999")
          [] a = "message" -> PyStrV("bob logged in")
          [] a = "msg" -> PyStrV("%s logged in")
          [] a = "args" -> PyTuple(<<PyStrV("bob")>>, "('bob',)")
          [] a = "exc_info" ->
                PyTuple(<<>>, "(<class 'ZeroDivisionError'>, ZeroDivisionError('division by zero'), <traceback object>)")
          [] a = "exc_text" -> PyStrV("Traceback (most recent call last): ...")
          [] a = "stack_info" -> PyStrV("Stack (most recent call last): ...")
          [] a = "levelname" -> PyStrV("ERROR")
          [] a = "levelno" -> PyInt(40)
          [] a = "created" -> PyFloat(1633852210, 9995000)
          [] a = "msecs" -> PyFloat(999, 0)
          [] OTHER -> TestRecord[a]]

Records == {TestRecord, BoolRecord, FormattedRecord}

-----------------------------------------------------------------------------
(* SqliteHandler.  A call state s holds the handler's fields, the          *)
(* databases, and the call's outcome so far: exc (the exception raised,    *)
(* NoExc while none is), ret (the list returned) and trace (the connection *)
(* events in order).                                                       *)

Memory == PyStrV(":memory:")

Connection(id) == [t |-> "Connection", id |-> id]
Cursor(id) == [t |-> "Cursor", conn |-> id]

Raise(s, e) == [s EXCEPT !.exc = e]

\* The database the handler's connection is to
Db(s) == IF s.database_file = Memory THEN s.memDb ELSE s.fileDb

SetDb(s, db) ==
    IF s.database_file = Memory THEN [s EXCEPT !.memDb = db]
    ELSE [s EXCEPT !.fileDb = db]

\* __init__ with the check for None left out: None falls through to the
\* type check
InitWithoutNoneCheck(target) ==
    LET new == [database_file |-> None, connection |-> None,
                cursor |-> None, exc |-> NoExc]
    IN  IF target.t = "str" /\ target # Memory /\ target.v # ""
        THEN [new EXCEPT !.database_file = PyPath(target.v)]
        ELSE IF target = Memory
        THEN [new EXCEPT !.database_file = target]
        ELSE IF target = PyStrV("")
        THEN Raise(new, "ValueError")
        ELSE IF target.t # "Path"
        THEN Raise(new, "TypeError")
        ELSE [new EXCEPT !.database_file = target]

\* SqliteHandler(database_file): the target as validated and normalized, or
\* the exception raised
__init__(target) ==
    LET new == [database_file |-> None, connection |-> None,
                cursor |-> None, exc |-> NoExc]
    IN  IF target.t = "str" /\ target # Memory /\ target.v # ""
        THEN [new EXCEPT !.database_file = PyPath(target.v)]
        ELSE IF target = Memory
        THEN [new EXCEPT !.database_file = target]
        ELSE IF target = PyStrV("")
        THEN Raise(new, "ValueError")
        ELSE IF target = None
        THEN Raise(new, "ValueError")
        ELSE IF target.t # "Path"
        THEN Raise(new, "TypeError")
        ELSE [new EXCEPT !.database_file = target]

\* sqlite3.connect(self.database_file): a new connection; to ":memory:" it
\* is a connection to a new, empty database
Connect(s) ==
    LET id == s.nextConn + 1
    IN  [s EXCEPT !.connection = Connection(id),
                  !.nextConn = id,
                  !.openConns = @ \cup {id},
                  !.memDb = IF s.database_file = Memory THEN EmptyDb ELSE @,
                  !.trace = Append(@, "connect")]

\* get_tables without the filter on sqlite_sequence
GetTablesUnfiltered(s) ==
    IF s.cursor = None THEN Raise(s, "AttributeError")
    ELSE [s EXCEPT !.ret = Db(s).tables]

get_tables(s) ==
    IF s.cursor = None THEN Raise(s, "AttributeError")
    ELSE [s EXCEPT !.ret =
            SelectSeq(Db(s).tables, LAMBDA name : name # "sqlite_sequence")]

create_logging_table(s, script) ==
    IF ~script.found THEN Raise(s, "FileNotFoundError")
    ELSE IF s.cursor = None THEN Raise(s, "AttributeError")
    ELSE SetDb([s EXCEPT !.trace = Append(@, "executescript")],
               ExecuteScript(Db(s), script))

\* open() running the bootstrap script whether or not log_record exists
OpenAlwaysBootstraps(s, script) ==
    LET s1 == Connect(s)
        s2 == [s1 EXCEPT !.cursor = Cursor(s1.connection.id)]
    IN  create_logging_table(s2, script)

\* open(): script is what sqlite_logger/logging.sql is when it is called
open(s, script) ==
    LET s1 == Connect(s)
        s2 == [s1 EXCEPT !.cursor = Cursor(s1.connection.id)]
        s3 == get_tables(s2)
        s4 == [s3 EXCEPT !.ret = <<>>]
    IN  IF "log_record" \notin Range(s3.ret)
        THEN create_logging_table(s4, script)
        ELSE s4

\* close() forgetting to reset the cursor
CloseKeepsCursor(s) ==
    IF s.connection # None
    THEN [s EXCEPT !.openConns = @ \ {s.connection.id},
                   !.memDb = IF s.database_file = Memory THEN EmptyDb ELSE @,
                   !.connection = None,
                   !.trace = Append(@, "disconnect")]
    ELSE s

close(s) ==
    IF s.connection # None
    THEN [s EXCEPT !.openConns = @ \ {s.connection.id},
                   !.memDb = IF s.database_file = Memory THEN EmptyDb ELSE @,
                   !.connection = None,
                   !.cursor = None,
                   !.trace = Append(@, "disconnect")]
    ELSE s

\* self.cursor.execute("PRAGMA table_info(...)"); columns = fetchall()
ExecutePragma(s, table_name) ==
    IF s.cursor = None THEN Raise(s, "AttributeError")
    ELSE IF table_name \in NotIdentifiers THEN Raise(s, "OperationalError")
    ELSE [s EXCEPT !.ret = TableInfo(Db(s), table_name)]

\* get_columns losing the first row of the query's result
GetColumnsSkipFirst(s, table_name, script) ==
    LET names(x) == [x EXCEPT !.ret = [i \in 1..(Len(@) - 1) |-> @[i + 1].name]]
    IN  IF s.database_file = Memory
        THEN LET s1 == ExecutePragma(s, table_name)
             IN  IF s1.exc # NoExc THEN s1 ELSE names(s1)
        ELSE LET s1 == open(s, script)
                 s2 == ExecutePragma(s1, table_name)
             IN  IF s1.exc # NoExc THEN s1
                 ELSE IF s2.exc # NoExc THEN s2
                 ELSE names(close(s2))

\* get_columns on a file target without the close() after the query
GetColumnsWithoutClose(s, table_name, script) ==
    LET names(x) == [x EXCEPT !.ret = [i \in 1..Len(@) |-> @[i].name]]
    IN  IF s.database_file = Memory
        THEN LET s1 == ExecutePragma(s, table_name)
             IN  IF s1.exc # NoExc THEN s1 ELSE names(s1)
        ELSE LET s1 == open(s, script)
                 s2 == ExecutePragma(s1, table_name)
             IN  IF s1.exc # NoExc THEN s1
                 ELSE IF s2.exc # NoExc THEN s2
                 ELSE names(s2)

get_columns(s, table_name, script) ==
    LET names(x) == [x EXCEPT !.ret = [i \in 1..Len(@) |-> @[i].name]]
    IN  IF s.database_file = Memory
        THEN LET s1 == ExecutePragma(s, table_name)
             IN  IF s1.exc # NoExc THEN s1 ELSE names(s1)
        ELSE LET s1 == open(s, script)
                 s2 == ExecutePragma(s1, table_name)
             IN  IF s1.exc # NoExc THEN s1
                 ELSE IF s2.exc # NoExc THEN s2
                 ELSE names(close(s2))

\* dict(zip(insert_columns, values)): a key keeps the place of its first
\* occurrence and the value of its last
RECURSIVE DictZip(_, _)
DictZip(items, dict) ==
    IF items = <<>> THEN dict
    ELSE LET item == Head(items)
             at == {i \in 1..Len(dict) : dict[i].k = item.k}
         IN  DictZip(Tail(items),
                     IF at = {} THEN Append(dict, item)
                     ELSE [i \in 1..Len(dict) |->
                             IF i \in at THEN item ELSE dict[i]])

Keys(dict) == [i \in 1..Len(dict) |-> dict[i].k]

\* insert_log(values): INSERT INTO log_record (<keys>) VALUES (?, ...) and
\* commit
\* insert_log without line 104: with no commit the row is visible on the
\* connection that inserted it and is rolled back when a file-backed
\* handler closes that connection
InsertLogWithoutCommit(s, values) ==
    LET db == Db(s)
        id == db.seq + 1
        row == [c \in Range(db.cols) |->
                  IF \E i \in 1..Len(values) : values[i].k = c
                  THEN Stored(values[CHOOSE i \in 1..Len(values) :
                                        values[i].k = c].v)
                  ELSE IF c = "id" THEN PyInt(id) ELSE None]
    IN  IF s.cursor = None THEN Raise(s, "AttributeError")
        ELSE IF \/ "log_record" \notin Range(db.tables)
                \/ values = <<>>
                \/ ~(Range(Keys(values)) \subseteq Range(db.cols))
        THEN Raise(s, "OperationalError")
        ELSE IF s.database_file = Memory
        THEN SetDb([s EXCEPT !.trace = Append(@, "insert")],
                   [db EXCEPT !.rows = Append(@, row), !.seq = id])
        ELSE [s EXCEPT !.trace = Append(@, "insert")]

insert_log(s, values) ==
    LET db == Db(s)
        id == db.seq + 1
        row == [c \in Range(db.cols) |->
                  IF \E i \in 1..Len(values) : values[i].k = c
                  THEN Stored(values[CHOOSE i \in 1..Len(values) :
                                        values[i].k = c].v)
                  ELSE IF c = "id" THEN PyInt(id) ELSE None]
    IN  IF s.cursor = None THEN Raise(s, "AttributeError")
        ELSE IF \/ "log_record" \notin Range(db.tables)
                \/ values = <<>>
                \/ ~(Range(Keys(values)) \subseteq Range(db.cols))
        THEN Raise(s, "OperationalError")
        ELSE SetDb([s EXCEPT !.trace = Append(@, "insert")],
                   [db EXCEPT !.rows = Append(@, row), !.seq = id])

\* getattr(record, attribute) for an attribute dir(record) lists
GetAttr(record, attribute) ==
    IF attribute = "getMessage"
    THEN PyTuple(<<>>, "<bound method LogRecord.getMessage>")
    ELSE record[attribute]

\* The loop of emit over dir(record): the pairs of insert_columns and values
RECURSIVE EmitLoop(_, _, _, _, _)
EmitLoop(record, columns, attributes, offset, items) ==
    IF attributes = <<>> THEN items
    ELSE LET attribute == Head(attributes)
             withMessage ==
                 IF attribute = "getMessage"
                 THEN Append(items, [k |-> "message",
                                     v |-> PyStrV(getMessage(record))])
                 ELSE items
             timestamp == GetAttr(record, attribute)
             withTimes ==
                 IF attribute = "created"
                 THEN withMessage \o
                      <<[k |-> "asctime_utc",
                         v |-> PyStrV(FormattedTimeUtc(timestamp))],
                        [k |-> "asctime",
                         v |-> PyStrV(FormattedTimeLocal(timestamp, offset))]>>
                 ELSE withMessage
             value == GetAttr(record, attribute)
             converted == IF IsSqlScalar(value) THEN value
                          ELSE PyStrV(str(value))
         IN  EmitLoop(record, columns, Tail(attributes), offset,
                      IF attribute \in Range(columns)
                      THEN Append(withTimes, [k |-> attribute, v |-> converted])
                      ELSE withMessage)

\* emit on a file target without the close() after the insert
EmitWithoutClose(s, record, script, offset) ==
    LET s1 == get_columns(s, "log_record", script)
        values_dict ==
            DictZip(EmitLoop(record, s1.ret, Dir(record), offset, <<>>), <<>>)
        s2 == [s1 EXCEPT !.ret = <<>>, !.row = values_dict]
    IN  IF s1.exc # NoExc THEN s1
        ELSE IF s.database_file = Memory THEN insert_log(s2, values_dict)
        ELSE insert_log(open(s2, script), values_dict)

\* emit(record): script is what sqlite_logger/logging.sql is when it is
\* called, offset the local zone's UTC offset
emit(s, record, script, offset) ==
    LET s1 == get_columns(s, "log_record", script)
        values_dict ==
            DictZip(EmitLoop(record, s1.ret, Dir(record), offset, <<>>), <<>>)
        s2 == [s1 EXCEPT !.ret = <<>>, !.row = values_dict]
    IN  IF s1.exc # NoExc THEN s1
        ELSE IF s.database_file = Memory THEN insert_log(s2, values_dict)
        ELSE LET s3 == open(s2, script)
                 s4 == insert_log(s3, values_dict)
             IN  IF s3.exc # NoExc THEN s3
                 ELSE IF s4.exc # NoExc THEN s4
                 ELSE close(s4)

-----------------------------------------------------------------------------
(* The state machine: one action per call of a public method. *)

\* The targets a caller passes to SqliteHandler(...); no argument is Memory
Targets ==
    {Memory, PyStrV(""), PyStrV("logging.db"), PyPath("logging.db"), None,
     PyInt(1)}

TableNames == {"log_record", "missing", "no-such"}

\* The local zone's offset from UTC, in minutes, where the handler runs
UtcOffsets == {-360}

\* No call yet.  arg is the call's argument where it is a Python value (the
\* target, the table name), record the LogRecord of an emit.
NoCall ==
    [op |-> "none", arg |-> None, record |-> <<>>, exc |-> NoExc,
     ret |-> <<>>, trace |-> <<>>, row |-> <<>>]

Init ==
    /\ alive = FALSE
    /\ database_file = None
    /\ connection = None
    /\ cursor = None
    /\ fileDb = EmptyDb
    /\ memDb = EmptyDb
    /\ nextConn = 0
    /\ openConns = {}
    /\ utcoffset \in UtcOffsets
    /\ last = NoCall

\* The call state a method starts from
Begin ==
    [database_file |-> database_file, connection |-> connection,
     cursor |-> cursor, fileDb |-> fileDb, memDb |-> memDb,
     nextConn |-> nextConn, openConns |-> openConns,
     exc |-> NoExc, ret |-> <<>>, trace |-> <<>>, row |-> <<>>]

\* The call op(arg) ends in call state s
Return(op, arg, record, s) ==
    /\ s.nextConn <= MaxConnections
    /\ Len(s.fileDb.rows) <= MaxRows
    /\ Len(s.memDb.rows) <= MaxRows
    /\ connection' = s.connection
    /\ cursor' = s.cursor
    /\ fileDb' = s.fileDb
    /\ memDb' = s.memDb
    /\ nextConn' = s.nextConn
    /\ openConns' = s.openConns
    /\ last' = [op |-> op, arg |-> arg, record |-> record, exc |-> s.exc,
                ret |-> s.ret, trace |-> s.trace, row |-> s.row]
    /\ UNCHANGED <<alive, database_file, utcoffset>>

Construct(target) ==
    /\ ~alive
    /\ LET h == __init__(target)
       IN  /\ alive' = (h.exc = NoExc)
           /\ database_file' = h.database_file
           /\ connection' = h.connection
           /\ cursor' = h.cursor
           /\ last' = [NoCall EXCEPT !.op = "__init__", !.arg = target,
                                     !.exc = h.exc]
    /\ UNCHANGED <<fileDb, memDb, nextConn, openConns, utcoffset>>

Open(script) ==
    alive /\ \E s \in {open(Begin, script)} : Return("open", None, <<>>, s)

Close == alive /\ \E s \in {close(Begin)} : Return("close", None, <<>>, s)

CreateLoggingTable(script) ==
    alive /\ \E s \in {create_logging_table(Begin, script)} :
                Return("create_logging_table", PyStrV(script.path), <<>>, s)

GetColumns(table_name, script) ==
    alive /\ \E s \in {get_columns(Begin, table_name, script)} :
                Return("get_columns", PyStrV(table_name), <<>>, s)

GetTables == alive /\ \E s \in {get_tables(Begin)} : Return("get_tables", None, <<>>, s)

Emit(record, script) ==
    alive /\ \E s \in {emit(Begin, record, script, utcoffset)} :
                Return("emit", None, record, s)

Next ==
    \/ \E target \in Targets : Construct(target)
    \/ \E script \in DefaultScripts : Open(script)
    \/ Close
    \/ \E script \in DefaultScriptReruns \cup CustomScripts :
          CreateLoggingTable(script)
    \/ \E table_name \in TableNames, script \in DefaultScripts :
          GetColumns(table_name, script)
    \/ GetTables
    \/ \E record \in Records, script \in DefaultScripts : Emit(record, script)

Spec == Init /\ [][Next]_vars

\* A caller that pairs every open() with a close(): it calls open() only
\* while the handler holds no connection, and besides the constructor it
\* calls only open, close, get_columns, get_tables and emit
OpenWhenClosed(script) == connection = None /\ Open(script)

NextPaired ==
    \/ \E target \in Targets : Construct(target)
    \/ \E script \in DefaultScripts : OpenWhenClosed(script)
    \/ Close
    \/ \E table_name \in TableNames, script \in DefaultScripts :
          GetColumns(table_name, script)
    \/ GetTables
    \/ \E record \in Records, script \in DefaultScripts : Emit(record, script)

SpecPaired == Init /\ [][NextPaired]_vars

-----------------------------------------------------------------------------
(* Properties. *)

\* What the handler's next call would find
Tables == Db(Begin).tables
HasLogRecord == "log_record" \in Range(Tables)

\* C1: SqliteHandler(target) keeps ":memory:", makes a Path of any other
\* non-empty string, keeps a Path, rejects "" and None with ValueError and
\* any other type with TypeError; an accepted handler holds no connection and
\* no cursor.
C1_ConstructValidatesTarget ==
    last.op = "__init__" =>
        LET target == last.arg
            accepted == last.exc = NoExc
        IN  /\ target = PyStrV(":memory:") =>
                accepted /\ database_file = PyStrV(":memory:")
            /\ (target.t = "str" /\ target.v \notin {":memory:", ""}) =>
                accepted /\ database_file = [t |-> "Path", v |-> target.v]
            /\ target.t = "Path" => accepted /\ database_file = target
            /\ (target = PyStrV("") \/ target = None) =>
                last.exc = "ValueError"
            /\ target.t \notin {"str", "Path", "NoneType"} =>
                last.exc = "TypeError"
            /\ alive = accepted
            /\ accepted => connection = None /\ cursor = None

C1_Witness ==
    /\ last.op = "__init__"
    /\ last.arg = PyStrV("logging.db")
    /\ alive
    /\ database_file.t = "Path"
    /\ connection = None

C4_CloseNeverFails ==
    /\ [](last.op = "close" =>
            last.exc = NoExc /\ connection = None /\ cursor = None)
    /\ [][last'.op = "close" =>
            /\ connection = None =>
                UNCHANGED <<alive, database_file, connection, cursor, fileDb,
                            memDb, nextConn, openConns>>
            /\ connection # None =>
                /\ connection.id \in openConns
                /\ openConns' = openConns \ {connection.id}
                /\ UNCHANGED <<fileDb, nextConn>>]_vars

\* close() after open()
C4_Witness ==
    /\ last.op = "close"
    /\ last.trace = <<"disconnect">>
    /\ connection = None
    /\ cursor = None
    /\ database_file # Memory
    /\ HasLogRecord
    /\ nextConn = 1
    /\ openConns = {}

\* The table shape the specification documents for the default bootstrap
DocumentedColumns ==
    <<"id", "args", "asctime", "asctime_utc", "created", "exc_info",
      "filename", "funcName", "levelname", "lineno", "message", "module",
      "msecs", "msg", "name", "pathname", "process", "processName",
      "relativeCreated", "stack_info", "thread", "threadName", "taskName">>

\* log_record as the default bootstrap script made it
DefaultBootstrapped == HasLogRecord /\ Db(Begin).source = DefaultPath

GetColumnsOfLogRecordReturned ==
    /\ last.op = "get_columns"
    /\ last.arg = PyStrV("log_record")
    /\ last.exc = NoExc

\* C5 as stated: after the default bootstrap get_columns("log_record")
\* returns 22 column names.
C5_Original_TwentyTwoColumns ==
    (GetColumnsOfLogRecordReturned /\ DefaultBootstrapped) =>
        Len(last.ret) = 22

\* C5 amended: after the default bootstrap get_columns("log_record"), when
\* it returns, returns the 23 documented names (id and the 22 others) in
\* schema order, and running the default bootstrap again on a database that
\* has that log_record leaves its columns as they are.
C5_TwentyThreeColumns ==
    /\ []((GetColumnsOfLogRecordReturned /\ DefaultBootstrapped) =>
            last.ret = DocumentedColumns /\ Len(last.ret) = 23)
    /\ [][(/\ DefaultBootstrapped
           /\ last'.op = "create_logging_table"
           /\ last'.arg = PyStrV(DefaultPath)
           /\ last'.exc = NoExc) =>
            /\ DefaultBootstrapped'
            /\ Db(Begin)'.cols = Db(Begin).cols]_vars

\* get_columns("log_record") on an in-memory handler after open() and a
\* second run of the default bootstrap
C5_Witness ==
    /\ GetColumnsOfLogRecordReturned
    /\ DefaultBootstrapped
    /\ database_file = Memory
    /\ Head(Tables) = "sqlite_sequence"
    /\ Len(last.ret) = 23
    /\ last.ret[1] = "id"
    /\ last.ret[23] = "taskName"

\* The call was get_columns with the name of a table the database lacks
GetColumnsOfMissingTable ==
    /\ last.op = "get_columns"
    /\ (last.arg # PyStrV("log_record") \/ ~HasLogRecord)

\* C6 as stated: get_columns of a table that does not exist returns the
\* empty sequence and does not fail, whatever the handler and its
\* connection state.
C6_Original_MissingTableNeverFails ==
    (last.op = "get_columns" /\ last.arg = PyStrV("missing")) =>
        last.exc = NoExc /\ last.ret = <<>>

\* C6 amended: get_columns of a table that does not exist, named by a plain
\* SQL identifier, returns the empty sequence on an in-memory handler whose
\* connection is open, and on a file-backed handler in every connection
\* state unless its own open() fails for want of the bootstrap script (the
\* handler is then left closed only if open() succeeded); on an in-memory
\* handler with no open connection it fails with AttributeError.  A name
\* that is no SQL identifier fails the query with OperationalError.
C6_MissingTableNeedsConnection ==
    GetColumnsOfMissingTable =>
        LET identifier == last.arg.v \notin {"no-such"}
            returnedEmpty == last.exc = NoExc /\ last.ret = <<>>
        IN  IF database_file = Memory
            THEN /\ connection = None => last.exc = "AttributeError"
                 /\ (connection # None /\ identifier) => returnedEmpty
                 /\ (connection # None /\ ~identifier) =>
                        last.exc = "OperationalError"
            ELSE /\ ~HasLogRecord <=> last.exc = "FileNotFoundError"
                 /\ (HasLogRecord /\ identifier) =>
                        returnedEmpty /\ connection = None /\ cursor = None
                 /\ (HasLogRecord /\ ~identifier) =>
                        last.exc = "OperationalError"

\* get_columns("missing") on an in-memory handler that is not open
C6_Witness ==
    /\ last.op = "get_columns"
    /\ last.arg = PyStrV("missing")
    /\ database_file = Memory
    /\ connection = None
    /\ last.exc = "AttributeError"

\* The row the last insert added
InsertedRow == Db(Begin).rows[Len(Db(Begin).rows)]

EmitReturned == last.op = "emit" /\ last.exc = NoExc

\* C7: after emit(record) on the default schema the inserted row holds, in
\* every column but id, asctime, asctime_utc and message, a value whose text
\* is the text of the record's attribute of that name.
C7_EmitRoundTripsAsText ==
    (EmitReturned /\ Db(Begin).cols = DocumentedColumns) =>
        \A c \in Range(DocumentedColumns) \
                 {"id", "asctime", "asctime_utc", "message"} :
            str(InsertedRow[c]) = str(last.record[c])

\* The value the row emit built gives column c
RowHas(c) == \E i \in 1..Len(last.row) : last.row[i].k = c
RowValue(c) == last.row[CHOOSE i \in 1..Len(last.row) : last.row[i].k = c].v

Digit(text, i) == CHOOSE d \in 0..9 : ToString(d) = SubSeq(text, i, i)

\* The number written in decimal at text[from..to]
RECURSIVE Number(_, _, _)
Number(text, from, to) ==
    IF from > to THEN 0
    ELSE 10 * Number(text, from, to - 1) + Digit(text, to)

\* The days from 1970-01-01 to the Gregorian date y-m-d
DaysFromCivil(y, m, d) ==
    LET yy == IF m <= 2 THEN y - 1 ELSE y
        era == yy \div 400
        yoe == yy - era * 400
        mp == IF m > 2 THEN m - 3 ELSE m + 9
        doy == (153 * mp + 2) \div 5 + d - 1
        doe == yoe * 365 + yoe \div 4 - yoe \div 100 + doy
    IN  era * 146097 + doe - 719468

\* text reads YYYY-MM-DD HH:MM:SS,mmm and names second `sec` of the epoch
\* and millisecond `ms` of that second
ReadsAsUtc(text, sec, ms) ==
    /\ Len(text) = 23
    /\ SubSeq(text, 5, 5) = "-"
    /\ SubSeq(text, 8, 8) = "-"
    /\ SubSeq(text, 11, 11) = " "
    /\ SubSeq(text, 14, 14) = ":"
    /\ SubSeq(text, 17, 17) = ":"
    /\ SubSeq(text, 20, 20) = ","
    /\ \A i \in (1..23) \ {5, 8, 11, 14, 17, 20} :
          \E d \in 0..9 : ToString(d) = SubSeq(text, i, i)
    /\ LET year == Number(text, 1, 4)
           month == Number(text, 6, 7)
           day == Number(text, 9, 10)
           hour == Number(text, 12, 13)
           minute == Number(text, 15, 16)
           second == Number(text, 18, 19)
       IN  /\ month \in 1..12
           /\ day \in 1..31
           /\ hour \in 0..23
           /\ minute \in 0..59
           /\ second \in 0..59
           /\ DaysFromCivil(year, month, day) * 86400 + hour * 3600
                + minute * 60 + second = sec
           /\ Number(text, 21, 23) = ms

\* The microsecond nearest to frac (in 10^-7 s), the even one of two
NearestMicrosecond(frac) ==
    CHOOSE us \in {frac \div 10, frac \div 10 + 1} :
        /\ 10 * us - frac \in -5..5
        /\ 10 * us - frac \in {-5, 5} => us % 2 = 0

\* C8 as stated: asctime_utc is the UTC time of the creation timestamp cut
\* to milliseconds, and "2021-10-10 10:10:10,000" for 1633852210.0.
C8_Original_AsctimeUtcLiteral ==
    (last.op = "emit" /\ RowHas("asctime_utc")) =>
        LET created == last.record["created"]
        IN  /\ ReadsAsUtc(RowValue("asctime_utc").v, created.sec,
                          created.frac \div 10000)
            /\ created = PyFloat(1633852210, 0) =>
                  RowValue("asctime_utc").v = "2021-10-10 10:10:10,000"

\* C8 amended: asctime_utc is the UTC time, as YYYY-MM-DD HH:MM:SS,mmm, of
\* the creation timestamp rounded to the nearest microsecond (a half to the
\* even one) and then cut, not rounded, to milliseconds; for 1633852210.0 it
\* is "2021-10-10 07:50:10,000".
C8_AsctimeUtcOfRoundedMicroseconds ==
    (last.op = "emit" /\ RowHas("asctime_utc")) =>
        LET created == last.record["created"]
            us == NearestMicrosecond(created.frac)
        IN  /\ RowValue("asctime_utc").t = "str"
            /\ ReadsAsUtc(RowValue("asctime_utc").v,
                          created.sec + us \div 1000000,
                          (us % 1000000) \div 1000)
            /\ created = PyFloat(1633852210, 0) =>
                  RowValue("asctime_utc").v = "2021-10-10 07:50:10,000"

\* A timestamp 0.2 microseconds below a full second is stored as that second
C8_Witness ==
    /\ EmitReturned
    /\ last.record["created"] = PyFloat(1633852210, 9999998)
    /\ RowHas("asctime_utc")
    /\ InsertedRow["asctime_utc"] = PyStrV("2021-10-10 07:50:11,000")

\* C9: the row emit builds names only message and columns of log_record,
\* each once; so emit succeeds when log_record has a message column and
\* fails when it has none.
C9_RowNamesOnlyColumns ==
    (last.op = "emit" /\ last.row # <<>>) =>
        LET columns == Range(Db(Begin).cols)
        IN  /\ Range(Keys(last.row)) \subseteq columns \cup {"message"}
            /\ \A i, j \in 1..Len(last.row) :
                  last.row[i].k = last.row[j].k => i = j
            /\ "message" \in columns => last.exc = NoExc
            /\ "message" \notin columns => last.exc # NoExc

\* The connection events of the last call
ConnectionEvents(trace) ==
    SelectSeq(trace, LAMBDA e : e \in {"connect", "insert", "disconnect"})

\* C10 as stated: a file-backed emit opens the connection once, inserts and
\* closes.
C10_Original_EmitOpensOnce ==
    (EmitReturned /\ database_file # Memory) =>
        /\ ConnectionEvents(last.trace) = <<"connect", "insert", "disconnect">>
        /\ connection = None

\* C10 amended: a file-backed emit that returns has opened and closed the
\* connection twice, once in get_columns to read the columns and once
\* around the insert, and leaves the handler with no connection; an
\* in-memory emit opens and closes nothing, inserts on the connection that
\* is open and leaves that connection in place, and with no connection open
\* fails with AttributeError and inserts nothing.
C10_EmitOpensTwice ==
    /\ []((EmitReturned /\ database_file # Memory) =>
            /\ ConnectionEvents(last.trace) =
                  <<"connect", "disconnect", "connect", "insert", "disconnect">>
            /\ connection = None
            /\ cursor = None)
    /\ [][(last'.op = "emit" /\ database_file = Memory) =>
            /\ ConnectionEvents(last'.trace) \in {<<>>, <<"insert">>}
            /\ UNCHANGED <<connection, cursor, nextConn, openConns, fileDb>>
            /\ last'.exc = NoExc =>
                  /\ connection # None
                  /\ ConnectionEvents(last'.trace) = <<"insert">>
                  /\ Len(memDb'.rows) = Len(memDb.rows) + 1
            /\ last'.exc # NoExc => memDb' = memDb
            /\ connection = None => last'.exc = "AttributeError"]_vars

\* The first emit on a file-backed handler: the file then holds one row
C10_Witness ==
    /\ EmitReturned
    /\ database_file = PyPath("logging.db")
    /\ "executescript" \in Range(last.trace)
    /\ Len(fileDb.rows) = 1
    /\ connection = None
    /\ openConns = {}

\* The row that stores the mapping values under the next id of db
StoredRow(db, values) ==
    [c \in Range(db.cols) |->
        IF \E i \in 1..Len(values) : values[i].k = c
        THEN Stored(values[CHOOSE i \in 1..Len(values) : values[i].k = c].v)
        ELSE IF c = "id" THEN PyInt(db.seq + 1) ELSE None]

\* C11: an emit that returns adds exactly one row to log_record, after the
\* rows already there and leaving them as they were, and an emit that fails
\* adds none; on a file-backed handler the rows outlive the connections, so
\* n emits add n rows in emit order; on an in-memory handler the rows are
\* gone whenever the connection changes, and after close() and then an
\* open() that returns, log_record is present and empty.
C11_EmitAddsOneRow ==
    /\ [][last'.op = "emit" =>
            LET before == Db(Begin).rows
                after == Db(Begin)'.rows
                inserts == SelectSeq(last'.trace, LAMBDA e : e = "insert")
            IN  /\ last'.exc = NoExc =>
                      /\ Len(after) = Len(before) + 1
                      /\ SubSeq(after, 1, Len(before)) = before
                      /\ after[Len(after)] =
                            StoredRow([Db(Begin)' EXCEPT !.seq = Len(before),
                                                         !.rows = before],
                                      last'.row)
                      /\ \A j \in 1..Len(before) :
                            before[j]["id"].v < after[Len(after)]["id"].v
                      /\ inserts = <<"insert">>
                /\ last'.exc # NoExc =>
                      /\ after = before
                      /\ inserts = <<>>
                /\ database_file # Memory =>
                      /\ memDb' = memDb
                      /\ SubSeq(fileDb'.rows, 1, Len(fileDb.rows)) = fileDb.rows
                /\ database_file = Memory => fileDb' = fileDb]_vars
    /\ [][(alive /\ database_file # Memory /\ last'.op # "create_logging_table")
            => SubSeq(fileDb'.rows, 1, Len(fileDb.rows)) = fileDb.rows]_vars
    /\ [][(database_file = Memory /\ connection' # connection) =>
            memDb'.rows = <<>>]_vars
    /\ []((database_file = Memory /\ connection = None) => memDb = EmptyDb)
    /\ [][(database_file = Memory /\ last.op = "close" /\ last'.op = "open"
            /\ last'.exc = NoExc) =>
            /\ "log_record" \in Range(memDb'.tables)
            /\ memDb'.rows = <<>>]_vars

\* Two emits of different records on a file-backed handler: the file holds
\* both rows, in emit order, after the connections are closed
C11_Witness ==
    /\ EmitReturned
    /\ database_file = PyPath("logging.db")
    /\ connection = None
    /\ Len(fileDb.rows) = 2
    /\ fileDb.rows[1]["id"] = PyInt(1)
    /\ fileDb.rows[2]["id"] = PyInt(2)
    /\ fileDb.rows[1]["message"] # fileDb.rows[2]["message"]
    /\ fileDb.rows[2]["message"] = Stored(RowValue("message"))

\* C12: when the caller calls open() only while the handler holds no
\* connection, at most one connection is opened and not yet closed, there
\* is one exactly when the connection field is not None, and no call opens
\* a connection while the handler holds one.
C12_NoLeakedConnection ==
    /\ [](/\ Cardinality(openConns) <= 1
          /\ Cardinality(openConns) = 1 <=> connection # None)
    /\ [][connection # None => "connect" \notin Range(last'.trace)]_vars

====
